---- MODULE Spec2Model ----
(***************************************************************************)
(* pushel (src/main.rs): a reminder daemon.  One thread polls the user's   *)
(* idle time and maintains a MotionTracker (last_motion, current_status);  *)
(* one thread per configured notification sleeps its interval and sends    *)
(* the notification when should_notify() holds; status changes are pushed  *)
(* to Home Assistant by spawned tasks; main parses the intervals, spawns   *)
(* the threads and then serves the ad-hoc route or returns.                *)
(*                                                                         *)
(* Time is counted in whole seconds.  An Instant is represented by the     *)
(* number of seconds that have elapsed since it was taken, so              *)
(* Instant::now() is 0 and Tick ages every stored Instant by one second;   *)
(* a remaining sleep is the number of seconds still to wait.               *)
(*                                                                         *)
(* Spec is the program on this clock.  PushSpec and LockSpec leave the     *)
(* clock out to follow the pushes over many status changes, LockSpec with  *)
(* the Mutex guards shown; AdhocSpec adds the requests to the ad-hoc       *)
(* route; ParseSpec is parse_interval on its own.                          *)
(***************************************************************************)
EXTENDS Integers, Sequences, FiniteSets, TLC

VARIABLES
    notifications,   \* Vec<NotificationConfig>: the interval string of each record
    app_config,      \* AppConfig: webserver_enabled, Home Assistant set, listen_address parses
    main_pc,         \* position of main()
    next_notif,      \* index of the record the `for notif in notifications` loop is at
    last_motion,     \* MotionTracker.last_motion : Option<Instant>
    current_status,  \* MotionTracker.current_status : MotionStatus
    idle_pc,         \* position of the idle detection thread
    idle_rem,        \* seconds left of the idle thread's thread::sleep
    idle_late,       \* seconds the idle thread has spent in its current iteration
    idle_result,     \* the idle thread's local: what UserIdle::get_time() returned
    poll_failed,     \* history: the latest finished iteration of the idle loop got Err
    since_record,    \* history: seconds since the latest call of update_motion, if any
    reminders,       \* per record: position, remaining sleep and interval of its thread,
                     \* and (history) the seconds since it was spawned, up to the
                     \* interval, and, while it sends, the status at its tick
    pending,         \* Home Assistant push tasks spawned on the runtime and not finished
    ha_state,        \* the state Home Assistant has for sensor.pushel_motion, if it got one
    last_pushed,     \* history: the status of the latest push update_status spawned, if any
    adhoc_sending,   \* handlers of POST /api/v1/notify that are inside send_notification
    guards,          \* per Mutex of the MotionTracker: the thread that holds its guard, if any
    parse_input,     \* a string handed to parse_interval on its own
    parse_output     \* what parse_interval made of parse_input

vars == <<notifications, app_config, main_pc, next_notif, last_motion, current_status,
          idle_pc, idle_rem, idle_late, idle_result, poll_failed, since_record, reminders, pending,
          ha_state, last_pushed, adhoc_sending, guards, parse_input, parse_output>>

(***************************************************************************)
(* Bounds of the model.                                                    *)
(***************************************************************************)
\* Seconds one iteration of the idle loop may take besides its sleep.
PollSlack == 0
\* Home Assistant pushes that are followed at once: when update_status
\* spawns one more, the oldest one finishes at that moment.
MaxPending == 2
\* Requests to the ad-hoc route that may be handled at once.
MaxRequests == 1
\* Characters of the strings parse_interval is tried on exhaustively.
MaxInputLen == 2

(***************************************************************************)
(* Constants of the program.                                               *)
(***************************************************************************)
\* Duration::from_secs(15 * 60) in should_notify
NotifyWindow == 15 * 60
\* `if idle_seconds < 10`
IdleThreshold == 10
\* thread::sleep(Duration::from_secs(10)) of the idle loop
PollPeriod == 10
\* Elapsed times beyond the window are not told apart.
AgeCap == NotifyWindow + 2

Min(a, b) == IF a <= b THEN a ELSE b

\* Option<T>
None == <<>>
Some(x) == <<x>>
Unwrap(o) == o[1]

\* MotionStatus
Active == "Active"
Inactive == "Inactive"
MotionStatus == {Active, Inactive}

(***************************************************************************)
(* parse_interval.  A string is a sequence of characters, a character a    *)
(* one-letter string; a character outside ASCII is written by its code     *)
(* point.  A u64 is four limbs of 16 bits, the least significant first.    *)
(***************************************************************************)
Digits == <<"0", "1", "2", "3", "4", "5", "6", "7", "8", "9">>

IsDigit(c) == \E i \in 1..10 : Digits[i] = c

DigitVal(c) == (CHOOSE i \in 1..10 : Digits[i] = c) - 1

\* e with acute accent, two bytes in UTF-8
EAcute == "U+00E9"

\* The bytes a character takes in a str.
Utf8Len(c) == IF c = EAcute THEN 2 ELSE 1

\* str::len: the length in bytes
RECURSIVE ByteLen(_)
ByteLen(s) == IF s = <<>> THEN 0 ELSE Utf8Len(s[1]) + ByteLen(Tail(s))

LimbBase == 65536

\* The u64 of a number below 2^31.
U64(n) == <<n % LimbBase, n \div LimbBase, 0, 0>>

\* x * k + c: the low limbs, as many as x has, and what does not fit in them.
RECURSIVE MulAdd(_, _, _)
MulAdd(x, k, c) ==
    IF x = <<>> THEN [limbs |-> <<>>, carry |-> c]
    ELSE LET t == x[1] * k + c
             rest == MulAdd(Tail(x), k, t \div LimbBase)
         IN  [limbs |-> <<t % LimbBase>> \o rest.limbs, carry |-> rest.carry]

\* The digits read into a u64; not ok when the number does not fit.
RECURSIVE DigitsValue(_)
DigitsValue(s) ==
    IF s = <<>> THEN [ok |-> TRUE, value |-> U64(0)]
    ELSE LET front == DigitsValue(SubSeq(s, 1, Len(s) - 1))
             next == MulAdd(front.value, 10, DigitVal(s[Len(s)]))
         IN  IF front.ok /\ next.carry = 0
             THEN [ok |-> TRUE, value |-> next.limbs]
             ELSE [ok |-> FALSE, value |-> U64(0)]

\* str::parse::<u64>: an optional '+', then at least one digit, digits
\* only, and the number fits in 64 bits.
ParseU64(s) ==
    LET body == IF s # <<>> /\ s[1] = "+" THEN Tail(s) ELSE s
    IN  IF body # <<>> /\ \A i \in 1..Len(body) : IsDigit(body[i])
        THEN DigitsValue(body)
        ELSE [ok |-> FALSE, value |-> U64(0)]

\* Result<u64, &'static str>, or the panic of the call.  The three messages
\* are named by what they say.
ParseOk(secs) == [ok |-> TRUE, secs |-> secs, err |-> "", panicked |-> FALSE]
ParseErr(kind) == [ok |-> FALSE, secs |-> U64(0), err |-> kind, panicked |-> FALSE]
ParsePanic == [ok |-> FALSE, secs |-> U64(0), err |-> "", panicked |-> TRUE]

\* value * factor on u64: when the product does not fit, the multiplication
\* panics in a build with overflow checks and wraps around in one without.
Times(value, factor, overflow_checks) ==
    LET product == MulAdd(value, factor, 0)
    IN  IF product.carry # 0 /\ overflow_checks THEN ParsePanic
        ELSE ParseOk(product.limbs)

\* split_at(len - 1) panics when byte len - 1 is inside a character.
parse_interval(interval, overflow_checks) ==
    LET len == ByteLen(interval)
    IN  IF len < 2 THEN ParseErr("InvalidFormat")
        ELSE IF Utf8Len(interval[Len(interval)]) > 1 THEN ParsePanic
        ELSE LET value == ParseU64(SubSeq(interval, 1, Len(interval) - 1))
                 unit == interval[Len(interval)]
             IN  IF ~value.ok THEN ParseErr("InvalidNumber")
                 ELSE IF unit = "s" THEN ParseOk(value.value)
                 ELSE IF unit = "m" THEN Times(value.value, 60, overflow_checks)
                 ELSE IF unit = "h" THEN Times(value.value, 3600, overflow_checks)
                 ELSE ParseErr("InvalidUnit")

\* Duration::from_secs(interval) in the seconds of the clock (below 2^31).
AsSeconds(secs) == secs[1] + secs[2] * LimbBase

(***************************************************************************)
(* MotionTracker                                                           *)
(***************************************************************************)
\* Variant: only the first call stores an Instant.
update_motion_keep_first(lm) == IF lm = None THEN Some(0) ELSE lm

\* Variant: the call stores nothing.
update_motion_skipped(lm) == lm

\* *last_motion = Some(Instant::now())
update_motion(lm) == Some(0)

\* Variant: `<` in place of `<=`.
should_notify_exclusive(lm) ==
    IF lm # None THEN Unwrap(lm) < NotifyWindow ELSE FALSE

\* Variant: true when no motion was ever stored.
should_notify_default_allow(lm) ==
    IF lm # None THEN Unwrap(lm) <= NotifyWindow ELSE TRUE

\* Instant::now().duration_since(last_motion_time) <= 15 min; false when None
should_notify(lm) ==
    IF lm # None THEN Unwrap(lm) <= NotifyWindow ELSE FALSE

\* Variant: the new status is stored only when it is Active.
update_status_keep_active(cur, new) == IF cur # new /\ new = Active THEN new ELSE cur

\* The status update_status leaves in current_status.
update_status(cur, new) == IF cur # new THEN new ELSE cur

\* Variant: a push on every call, changed or not.
push_tasks_every_call(cur, new, ha) == IF ha THEN <<new>> ELSE <<>>

\* Variant: the push carries the status that was left.
push_tasks_old_status(cur, new, ha) == IF cur # new /\ ha THEN <<cur>> ELSE <<>>

\* The pushes update_status spawns: one when the status changed and both
\* homeassistant_url and homeassistant_api_key are set.
push_tasks(cur, new, ha) == IF cur # new /\ ha THEN <<new>> ELSE <<>>

(***************************************************************************)
(* Configurations the program is started with.                             *)
(***************************************************************************)
\* notifications.json: the interval strings of its records.
OneReminder == << <<"1", "s">> >>
TwoReminders == << <<"1", "s">>, <<"2", "s">> >>
BadIntervalFiles ==
    { << <<"5", "x">> >>,
      << <<"1", "s">>, <<"5", "x">> >>,
      << <<"1", "s">>, <<"5">> >>,
      << <<"x", "s">>, <<"1", "s">> >> }

\* config.json: webserver_enabled, whether homeassistant_url and
\* homeassistant_api_key are both set, whether listen_address parses.
AppConfig(web, ha, listen) ==
    [webserver_enabled |-> web, homeassistant |-> ha, listen_ok |-> listen]

\* Home Assistant is set where the process ends during startup; the pushes
\* of a process that goes on are followed in PushSpec and LockSpec.
StartConfigs ==
    {<<OneReminder, AppConfig(TRUE, FALSE, TRUE)>>,
     <<TwoReminders, AppConfig(TRUE, FALSE, TRUE)>>,
     <<TwoReminders, AppConfig(FALSE, TRUE, TRUE)>>,
     <<OneReminder, AppConfig(TRUE, TRUE, FALSE)>>,
     <<OneReminder, AppConfig(FALSE, FALSE, TRUE)>>}
    \cup {<<n, AppConfig(TRUE, TRUE, TRUE)>> : n \in BadIntervalFiles}

\* The two Mutexes of the MotionTracker; no thread holds a guard.
Mutexes == {"last_motion", "current_status"}
NoGuardHeld == [m \in Mutexes |-> None]

\* A thread that main has not spawned yet.
NotSpawned == [pc |-> "none", rem |-> 0, interval |-> 0, up |-> 0, seen |-> None]

\* The state main starts its work in, the two files read.
Started(configs, inputs) ==
    /\ \E c \in configs : notifications = c[1] /\ app_config = c[2]
    /\ main_pc = "spawn_idle"
    /\ next_notif = 1
    /\ last_motion = None
    /\ current_status = Inactive
    /\ idle_pc = "none"
    /\ idle_rem = 0
    /\ idle_late = 0
    /\ idle_result = None
    /\ poll_failed = FALSE
    /\ since_record = None
    /\ reminders = [r \in 1..Len(notifications) |-> NotSpawned]
    /\ pending = <<>>
    /\ ha_state = None
    /\ last_pushed = None
    /\ adhoc_sending = 0
    /\ guards = NoGuardHeld
    /\ parse_input \in inputs
    /\ parse_output = None

Init == Started(StartConfigs, {<<>>})

\* The process lives until main returns.
Running == main_pc \notin {"exit_ok", "exit_err"}

(***************************************************************************)
(* main                                                                    *)
(***************************************************************************)
\* thread::spawn of the idle detection thread
SpawnIdle ==
    /\ main_pc = "spawn_idle"
    /\ main_pc' = "notif_loop"
    /\ idle_pc' = "poll"
    /\ UNCHANGED <<notifications, app_config, ha_state, last_pushed, adhoc_sending,
                   guards, parse_input, parse_output, next_notif, last_motion, current_status,
                   idle_rem, idle_late, idle_result, poll_failed, since_record, reminders, pending>>

\* Variant: the thread goes to its loop without the sleep in front of it.
first_sleep_skipped(interval) == 0

\* thread::sleep(interval) in front of the reminder thread's loop
first_sleep(interval) == interval

\* One pass of `for notif in notifications`: parse_interval(..)? and thread::spawn
SpawnReminder ==
    /\ main_pc = "notif_loop"
    /\ next_notif <= Len(notifications)
    /\ \E overflow_checks \in BOOLEAN :
       LET parsed == parse_interval(notifications[next_notif], overflow_checks)
           interval == AsSeconds(parsed.secs)
       IN  IF parsed.ok
           THEN /\ reminders' = [reminders EXCEPT ![next_notif] =
                                    [pc |-> "sleep", rem |-> first_sleep(interval),
                                     interval |-> interval, up |-> 0, seen |-> None]]
                /\ next_notif' = next_notif + 1
                /\ main_pc' = main_pc
           ELSE /\ main_pc' = "exit_err"
                /\ UNCHANGED <<reminders, next_notif>>
    /\ UNCHANGED <<notifications, app_config, ha_state, last_pushed, adhoc_sending,
                   guards, parse_input, parse_output, last_motion, current_status,
                   idle_pc, idle_rem, idle_late, idle_result, poll_failed, since_record, pending>>

\* After the loop: serve the ad-hoc route, or return.
StartWebserver ==
    /\ main_pc = "notif_loop"
    /\ next_notif > Len(notifications)
    /\ main_pc' = IF app_config.webserver_enabled
                  THEN IF app_config.listen_ok THEN "serving" ELSE "exit_err"
                  ELSE "exit_ok"
    /\ UNCHANGED <<notifications, app_config, ha_state, last_pushed, adhoc_sending,
                   guards, parse_input, parse_output, next_notif, last_motion, current_status,
                   idle_pc, idle_rem, idle_late, idle_result, poll_failed, since_record, reminders, pending>>

(***************************************************************************)
(* The idle detection thread                                               *)
(***************************************************************************)
\* Result<Duration, Error> of UserIdle::get_time(), in whole seconds.
Ok(secs) == [ok |-> TRUE, secs |-> secs]
Err == [ok |-> FALSE, secs |-> 0]
IdleSeconds == {0, 9, 10, 11}
IdleResults == {Ok(n) : n \in IdleSeconds} \cup {Err}

\* Variant: `<=` in place of `<`.
UserActive_inclusive(idle_seconds) == idle_seconds <= IdleThreshold

\* `if idle_seconds < 10`
UserActive(idle_seconds) == idle_seconds < IdleThreshold

IdleAtLoopTop == idle_pc = "poll" \/ (idle_pc = "sleep" /\ idle_rem = 0)

\* End of an iteration: thread::sleep(Duration::from_secs(10))
IdleSleep ==
    /\ idle_pc' = "sleep"
    /\ idle_rem' = PollPeriod
    /\ idle_late' = 0
    /\ idle_result' = None

\* match UserIdle::get_time()
IdleQuery ==
    /\ Running
    /\ IdleAtLoopTop
    /\ idle_result' \in IdleResults
    /\ idle_pc' = "matched"
    /\ UNCHANGED <<notifications, app_config, ha_state, last_pushed, adhoc_sending,
                   guards, parse_input, parse_output, main_pc, next_notif, last_motion,
                   current_status, idle_rem, idle_late, poll_failed, since_record, reminders, pending>>

\* Ok(idle), idle_seconds < 10: update_motion()
IdleUpdateMotion ==
    /\ Running
    /\ idle_pc = "matched"
    /\ idle_result.ok
    /\ UserActive(idle_result.secs)
    /\ last_motion' = update_motion(last_motion)
    /\ since_record' = Some(0)
    /\ idle_pc' = "set_active"
    /\ UNCHANGED <<notifications, app_config, ha_state, last_pushed, adhoc_sending,
                   guards, parse_input, parse_output, main_pc, next_notif, current_status,
                   idle_rem, idle_late, idle_result, poll_failed, reminders, pending>>

\* Variant: update_status waits for the push it has spawned.
SpawnPushes_and_wait(new) ==
    LET tasks == push_tasks(current_status, new, app_config.homeassistant)
    IN  /\ pending = <<>>
        /\ pending' = <<>>
        /\ last_pushed' = IF tasks # <<>> THEN Some(tasks[Len(tasks)]) ELSE last_pushed
        /\ ha_state' \in IF tasks # <<>> THEN {ha_state, Some(tasks[Len(tasks)])} ELSE {ha_state}

\* runtime_handle.spawn(async move { push_to_homeassistant(..).await }) for
\* the pushes of update_status(new): the tasks join those in flight and the
\* call goes on.  (Beyond MaxPending the oldest task finishes now, with
\* either outcome.)
SpawnPushes(new) ==
    LET tasks == push_tasks(current_status, new, app_config.homeassistant)
        all == pending \o tasks
    IN  /\ last_pushed' = IF tasks # <<>> THEN Some(tasks[Len(tasks)]) ELSE last_pushed
        /\ IF Len(all) > MaxPending
           THEN /\ pending' = Tail(all)
                /\ ha_state' \in {ha_state, Some(Head(all))}
           ELSE /\ pending' = all
                /\ ha_state' = ha_state

\* ... then update_status(Active), and the sleep
IdleSetActive ==
    /\ Running
    /\ idle_pc = "set_active"
    /\ current_status' = update_status(current_status, Active)
    /\ SpawnPushes(Active)
    /\ poll_failed' = FALSE
    /\ IdleSleep
    /\ UNCHANGED <<notifications, app_config, adhoc_sending,
                   guards, parse_input, parse_output, main_pc, next_notif, last_motion, since_record,
                   reminders>>

\* Ok(idle), idle_seconds >= 10: update_status(Inactive), and the sleep
IdleSetInactive ==
    /\ Running
    /\ idle_pc = "matched"
    /\ idle_result.ok
    /\ ~UserActive(idle_result.secs)
    /\ current_status' = update_status(current_status, Inactive)
    /\ SpawnPushes(Inactive)
    /\ poll_failed' = FALSE
    /\ IdleSleep
    /\ UNCHANGED <<notifications, app_config, adhoc_sending,
                   guards, parse_input, parse_output, main_pc, next_notif, last_motion, since_record,
                   reminders>>

\* Variant: a failed query is taken for an idle user.
IdleQueryFailed_sets_inactive ==
    /\ Running
    /\ idle_pc = "matched"
    /\ ~idle_result.ok
    /\ current_status' = Inactive
    /\ poll_failed' = TRUE
    /\ IdleSleep
    /\ UNCHANGED <<notifications, app_config, ha_state, last_pushed, adhoc_sending,
                   guards, parse_input, parse_output, main_pc, next_notif, last_motion,
                   since_record, reminders, pending>>

\* Err(e): the error is logged; the sleep
IdleQueryFailed ==
    /\ Running
    /\ idle_pc = "matched"
    /\ ~idle_result.ok
    /\ poll_failed' = TRUE
    /\ IdleSleep
    /\ UNCHANGED <<notifications, app_config, ha_state, last_pushed, adhoc_sending,
                   guards, parse_input, parse_output, main_pc, next_notif, last_motion,
                   since_record, current_status, reminders, pending>>

(***************************************************************************)
(* The reminder threads                                                    *)
(***************************************************************************)
\* The MotionTracker the threads share clones of.
Tracker == [last_motion |-> last_motion, current_status |-> current_status]

\* Variant: a reminder is sent only while the status is Active.
fires_only_when_active(tracker) ==
    should_notify(tracker.last_motion) /\ tracker.current_status = Active

\* `if motion_tracker_clone.should_notify()`
fires(tracker) == should_notify(tracker.last_motion)

\* The sleep is over: should_notify(), then send_notification or nothing.
ReminderTick(r) ==
    /\ Running
    /\ reminders[r].pc = "sleep"
    /\ reminders[r].rem = 0
    /\ reminders' = [reminders EXCEPT ![r] =
                        IF fires(Tracker)
                        THEN [@ EXCEPT !.pc = "send", !.seen = Some(current_status)]
                        ELSE [@ EXCEPT !.rem = reminders[r].interval]]
    /\ UNCHANGED <<notifications, app_config, ha_state, last_pushed, adhoc_sending,
                   guards, parse_input, parse_output, main_pc, next_notif, last_motion,
                   current_status, idle_pc, idle_rem, idle_late, idle_result, poll_failed, since_record, pending>>

\* What command.status() comes to: notify-send could not be started (Err),
\* it ran and left with a failure, it ran and left with success.
SinkResults == {"not_started", "exit_failure", "exit_success"}

\* Variant: a notification that fails ends the thread.
after_send_stop_on_failure(result) == IF result = "exit_success" THEN "sleep" ELSE "stopped"

\* Where the reminder thread goes on after send_notification: the Err is
\* logged, the exit status is not looked at; the thread::sleep of the loop.
after_send(result) == "sleep"

\* command.status() of notify-send has returned: sleep the interval.
ReminderSent(r) ==
    /\ Running
    /\ reminders[r].pc = "send"
    /\ \E result \in SinkResults :
          reminders' = [reminders EXCEPT ![r] =
                           [@ EXCEPT !.pc = after_send(result), !.rem = reminders[r].interval,
                                     !.seen = None]]
    /\ UNCHANGED <<notifications, app_config, ha_state, last_pushed, adhoc_sending,
                   guards, parse_input, parse_output, main_pc, next_notif, last_motion,
                   current_status, idle_pc, idle_rem, idle_late, idle_result, poll_failed, since_record, pending>>

(***************************************************************************)
(* The runtime's push tasks                                                *)
(***************************************************************************)
\* Variant: a push that failed is spawned again.
respawned_on_error(accepted, status) == IF accepted THEN <<>> ELSE <<status>>

\* What the task spawns when push_to_homeassistant has returned: the Err is
\* logged, a response that is no success is logged inside, nothing else.
respawned(accepted, status) == <<>>

\* push_to_homeassistant has finished: Home Assistant has taken the state,
\* or the request failed or was answered with an error status.  Tasks
\* finish in any order.
PushDone(i) ==
    /\ Running
    /\ i \in 1..Len(pending)
    /\ \E accepted \in BOOLEAN :
          /\ ha_state' = IF accepted THEN Some(pending[i]) ELSE ha_state
          /\ pending' = SubSeq(pending, 1, i - 1) \o SubSeq(pending, i + 1, Len(pending))
                            \o respawned(accepted, pending[i])
    /\ UNCHANGED <<notifications, app_config, last_pushed, adhoc_sending,
                   guards, parse_input, parse_output, main_pc, next_notif, last_motion,
                   current_status, idle_pc, idle_rem, idle_late, idle_result, poll_failed,
                   since_record, reminders>>

(***************************************************************************)
(* Time                                                                    *)
(***************************************************************************)
IdleSleeping == idle_pc = "sleep" /\ idle_rem > 0

\* An Instant (or a history clock) one second later.
Aged(instant) ==
    IF instant = None THEN None ELSE Some(Min(Unwrap(instant) + 1, AgeCap))

\* One second passes.  Startup takes less than a second; an iteration of the
\* idle loop takes at most PollSlack seconds besides its sleep.
Tick ==
    /\ main_pc = "serving"
    /\ IdleSleeping \/ idle_late < PollSlack
    /\ last_motion' = Aged(last_motion)
    /\ since_record' = Aged(since_record)
    /\ idle_rem' = IF IdleSleeping THEN idle_rem - 1 ELSE idle_rem
    /\ idle_late' = IF IdleSleeping THEN idle_late ELSE idle_late + 1
    /\ reminders' = [r \in DOMAIN reminders |->
                        [reminders[r] EXCEPT
                            !.rem = IF reminders[r].pc = "sleep" /\ @ > 0 THEN @ - 1 ELSE @,
                            !.up = IF reminders[r].pc # "none"
                                   THEN Min(@ + 1, reminders[r].interval) ELSE @]]
    /\ UNCHANGED <<notifications, app_config, ha_state, last_pushed, adhoc_sending,
                   guards, parse_input, parse_output, main_pc, next_notif, current_status,
                   idle_pc, idle_result, poll_failed, pending>>

(***************************************************************************)
(* The ad-hoc route POST /api/v1/notify                                    *)
(***************************************************************************)
\* JSON bodies sent to the route: whether each field of AdhocNotification
\* is there.  `message: String` is the one field without Option.
AdhocBodies == [message : BOOLEAN, title : BOOLEAN]

\* warp::body::json() into AdhocNotification
Deserializes(body) == body.message

UNCHANGED_BY_ADHOC ==
    UNCHANGED <<notifications, app_config, main_pc, next_notif, last_motion, current_status,
                idle_pc, idle_rem, idle_late, idle_result, poll_failed, since_record,
                reminders, pending, ha_state, last_pushed, guards, parse_input, parse_output>>

\* Variant: the handler asks should_notify() before it sends.
AdhocNotify_if_recently_active ==
    /\ main_pc = "serving"
    /\ adhoc_sending < MaxRequests
    /\ \E body \in AdhocBodies : Deserializes(body)
    /\ should_notify(last_motion)
    /\ adhoc_sending' = adhoc_sending + 1
    /\ UNCHANGED_BY_ADHOC

\* A request whose body deserializes reaches the handler, which builds the
\* NotificationConfig and calls send_notification.
AdhocNotify ==
    /\ main_pc = "serving"
    /\ adhoc_sending < MaxRequests
    /\ \E body \in AdhocBodies : Deserializes(body)
    /\ adhoc_sending' = adhoc_sending + 1
    /\ UNCHANGED_BY_ADHOC

\* notify-send has returned (with or without an error): reply "Notification sent".
AdhocReplied ==
    /\ main_pc = "serving"
    /\ adhoc_sending > 0
    /\ adhoc_sending' = adhoc_sending - 1
    /\ UNCHANGED_BY_ADHOC

\* The idle thread's thread::sleep returns; how long it took is left open.
IdleSleepOver ==
    /\ Running
    /\ IdleSleeping
    /\ idle_rem' = 0
    /\ UNCHANGED <<notifications, app_config, ha_state, last_pushed, adhoc_sending,
                   guards, parse_input, parse_output, main_pc, next_notif, last_motion,
                   current_status, idle_pc, idle_late, idle_result, poll_failed,
                   since_record, reminders, pending>>

\* A reminder thread's thread::sleep(interval) returns, the interval over.
ReminderSleepOver(r) ==
    /\ Running
    /\ reminders[r].pc = "sleep"
    /\ reminders[r].rem > 0
    /\ reminders' = [reminders EXCEPT ![r] =
                        [@ EXCEPT !.rem = 0, !.up = reminders[r].interval]]
    /\ UNCHANGED <<notifications, app_config, ha_state, last_pushed, adhoc_sending,
                   guards, parse_input, parse_output, main_pc, next_notif, last_motion,
                   current_status, idle_pc, idle_rem, idle_late, idle_result, poll_failed,
                   since_record, pending>>

\* The steps of main, of the threads and of the push tasks.
Threads ==
    \/ SpawnIdle
    \/ SpawnReminder
    \/ StartWebserver
    \/ IdleQuery
    \/ IdleUpdateMotion
    \/ IdleSetActive
    \/ IdleSetInactive
    \/ IdleQueryFailed
    \/ \E r \in DOMAIN reminders : ReminderTick(r)
    \/ \E r \in DOMAIN reminders : ReminderSent(r)
    \/ \E i \in 1..MaxPending + 1 : PushDone(i)

Next ==
    \/ Threads
    \/ Tick

\* The program while no request is sent to the ad-hoc route.
Spec == Init /\ [][Next]_vars

\* The program with the clock left out: a sleep is over at some time, an
\* Instant stays as it was stored.  Started with Home Assistant set, one
\* or two reminders, serving or not; and with Home Assistant unset.
PushConfigs ==
    {<<OneReminder, AppConfig(TRUE, TRUE, TRUE)>>,
     <<TwoReminders, AppConfig(FALSE, TRUE, TRUE)>>,
     <<OneReminder, AppConfig(TRUE, FALSE, TRUE)>>}

PushInit == Started(PushConfigs, {<<>>})

PushNext ==
    \/ Threads
    \/ IdleSleepOver
    \/ \E r \in DOMAIN reminders : ReminderSleepOver(r)

PushSpec == PushInit /\ [][PushNext]_vars

(***************************************************************************)
(* The same threads with the Mutex guards of the MotionTracker shown: a    *)
(* method is one step that takes the guard (it waits while another thread  *)
(* holds it) and one step that does the method's work and drops the guard. *)
(* The clock is left out.                                                  *)
(***************************************************************************)
\* Threads are named by a number: the idle thread, and r for reminder r.
IdleThread == 0

Locked(m, t) == [guards EXCEPT ![m] = Some(t)]
Unlocked(m) == [guards EXCEPT ![m] = None]

\* update_motion: self.last_motion.lock()
UpdateMotionLock ==
    /\ Running
    /\ idle_pc = "matched"
    /\ idle_result.ok
    /\ UserActive(idle_result.secs)
    /\ guards["last_motion"] = None
    /\ guards' = Locked("last_motion", IdleThread)
    /\ idle_pc' = "update_motion"
    /\ UNCHANGED <<notifications, app_config, main_pc, next_notif, last_motion,
                 current_status, idle_rem, idle_late, idle_result, poll_failed,
                 since_record, reminders, pending, ha_state, last_pushed, adhoc_sending,
                 parse_input, parse_output>>

\* Variant: update_motion returns with its guard still held.
UpdateMotionUnlock_guard_kept ==
    /\ Running
    /\ idle_pc = "update_motion"
    /\ last_motion' = update_motion(last_motion)
    /\ since_record' = Some(0)
    /\ idle_pc' = "set_active"
    /\ UNCHANGED <<notifications, app_config, main_pc, next_notif, current_status,
                 idle_rem, idle_late, idle_result, poll_failed, reminders, pending,
                 ha_state, last_pushed, adhoc_sending, guards, parse_input, parse_output>>

\* update_motion: *last_motion = Some(Instant::now()); the guard is dropped
UpdateMotionUnlock ==
    /\ Running
    /\ idle_pc = "update_motion"
    /\ last_motion' = update_motion(last_motion)
    /\ since_record' = Some(0)
    /\ guards' = Unlocked("last_motion")
    /\ idle_pc' = "set_active"
    /\ UNCHANGED <<notifications, app_config, main_pc, next_notif, current_status,
                 idle_rem, idle_late, idle_result, poll_failed, reminders, pending,
                 ha_state, last_pushed, adhoc_sending, parse_input, parse_output>>

\* update_status: self.current_status.lock(), called after update_motion
\* or in the else branch
UpdateStatusLock ==
    /\ Running
    /\ \/ idle_pc = "set_active"
       \/ idle_pc = "matched" /\ idle_result.ok /\ ~UserActive(idle_result.secs)
    /\ guards["current_status"] = None
    /\ guards' = Locked("current_status", IdleThread)
    /\ idle_pc' = "update_status"
    /\ UNCHANGED <<notifications, app_config, main_pc, next_notif, last_motion,
                 current_status, idle_rem, idle_late, idle_result, poll_failed,
                 since_record, reminders, pending, ha_state, last_pushed, adhoc_sending,
                 parse_input, parse_output>>

\* update_status: compare, store, spawn the push; the guard is dropped; the
\* iteration ends with the sleep
UpdateStatusUnlock ==
    /\ Running
    /\ idle_pc = "update_status"
    /\ LET new == IF UserActive(idle_result.secs) THEN Active ELSE Inactive
       IN  /\ current_status' = update_status(current_status, new)
           /\ SpawnPushes(new)
    /\ guards' = Unlocked("current_status")
    /\ poll_failed' = FALSE
    /\ IdleSleep
    /\ UNCHANGED <<notifications, app_config, main_pc, next_notif, last_motion,
                 since_record, reminders, adhoc_sending, parse_input, parse_output>>

\* should_notify: self.last_motion.lock(), the reminder's sleep over
ShouldNotifyLock(r) ==
    /\ Running
    /\ reminders[r].pc = "sleep"
    /\ reminders[r].rem = 0
    /\ guards["last_motion"] = None
    /\ guards' = Locked("last_motion", r)
    /\ reminders' = [reminders EXCEPT ![r] = [@ EXCEPT !.pc = "should_notify"]]
    /\ UNCHANGED <<notifications, app_config, main_pc, next_notif, last_motion,
                 current_status, idle_pc, idle_rem, idle_late, idle_result, poll_failed,
                 since_record, pending, ha_state, last_pushed, adhoc_sending, parse_input,
                 parse_output>>

\* should_notify: the comparison; the guard is dropped; then
\* send_notification or nothing
ShouldNotifyUnlock(r) ==
    /\ Running
    /\ reminders[r].pc = "should_notify"
    /\ guards' = Unlocked("last_motion")
    /\ reminders' = [reminders EXCEPT ![r] =
                        IF fires(Tracker)
                        THEN [@ EXCEPT !.pc = "send", !.seen = Some(current_status)]
                        ELSE [@ EXCEPT !.pc = "sleep", !.rem = reminders[r].interval]]
    /\ UNCHANGED <<notifications, app_config, main_pc, next_notif, last_motion,
                 current_status, idle_pc, idle_rem, idle_late, idle_result, poll_failed,
                 since_record, pending, ha_state, last_pushed, adhoc_sending, parse_input,
                 parse_output>>

LockConfigs ==
    {<<TwoReminders, AppConfig(TRUE, TRUE, TRUE)>>,
     <<OneReminder, AppConfig(TRUE, FALSE, TRUE)>>}

LockInit == Started(LockConfigs, {<<>>})

LockNext ==
    \/ SpawnIdle
    \/ SpawnReminder
    \/ StartWebserver
    \/ IdleQuery
    \/ IdleQueryFailed
    \/ UpdateMotionLock
    \/ UpdateMotionUnlock
    \/ UpdateStatusLock
    \/ UpdateStatusUnlock
    \/ \E r \in DOMAIN reminders : ShouldNotifyLock(r)
    \/ \E r \in DOMAIN reminders : ShouldNotifyUnlock(r)
    \/ \E r \in DOMAIN reminders : ReminderSent(r)
    \/ \E i \in 1..MaxPending + 1 : PushDone(i)
    \/ IdleSleepOver
    \/ \E r \in DOMAIN reminders : ReminderSleepOver(r)

LockSpec == LockInit /\ [][LockNext]_vars

\* The program with requests arriving at the ad-hoc route, started with one
\* reminder and no Home Assistant, or with a listen_address that fails.
AdhocConfigs ==
    {<<OneReminder, AppConfig(TRUE, FALSE, TRUE)>>,
     <<OneReminder, AppConfig(TRUE, TRUE, FALSE)>>}

AdhocInit == Started(AdhocConfigs, {<<>>})

AdhocNext ==
    \/ Next
    \/ AdhocNotify
    \/ AdhocReplied

AdhocSpec == AdhocInit /\ [][AdhocNext]_vars

(***************************************************************************)
(* parse_interval on its own                                               *)
(***************************************************************************)
\* The characters the short inputs are made of.
ParseChars == {"0", "1", "5", "9", "+", "-", "s", "m", "h", "x", EAcute}

\* Every string over ParseChars of at most MaxInputLen characters.
ShortInputs == UNION {[1..n -> ParseChars] : n \in 0..MaxInputLen}

\* The examples of the documentation, and numbers at the edge of u64:
\* 2^64 - 1 and 2^64, and the largest number of minutes and of hours whose
\* seconds fit in a u64, and the next one.
LongInputs ==
    {<<"3", "0", "m">>,
     <<"2", "h">>,
     <<"4", "5", "s">>,
     <<"+", "5", "s">>,
     <<"0", "0", "7", "s">>,
     <<"1", "8", "4", "4", "6", "7", "4", "4", "0", "7", "3", "7", "0", "9", "5", "5", "1", "6", "1", "5", "s">>,
     <<"1", "8", "4", "4", "6", "7", "4", "4", "0", "7", "3", "7", "0", "9", "5", "5", "1", "6", "1", "6", "s">>,
     <<"3", "0", "7", "4", "4", "5", "7", "3", "4", "5", "6", "1", "8", "2", "5", "8", "6", "0", "m">>,
     <<"3", "0", "7", "4", "4", "5", "7", "3", "4", "5", "6", "1", "8", "2", "5", "8", "6", "1", "m">>,
     <<"5", "1", "2", "4", "0", "9", "5", "5", "7", "6", "0", "3", "0", "4", "3", "1", "h">>,
     <<"5", "1", "2", "4", "0", "9", "5", "5", "7", "6", "0", "3", "0", "4", "3", "2", "h">>}

ParseInputs == ShortInputs \cup LongInputs

\* One call of parse_interval, in a build with or without overflow checks.
ParseApply ==
    /\ parse_output = None
    /\ \E overflow_checks \in BOOLEAN :
          parse_output' = Some(parse_interval(parse_input, overflow_checks))
    /\ UNCHANGED <<notifications, app_config, main_pc, next_notif, last_motion,
                   current_status, idle_pc, idle_rem, idle_late, idle_result, poll_failed,
                   since_record, reminders, pending, ha_state, last_pushed, adhoc_sending,
                   guards, parse_input>>

ParseInit == Started({<< <<>>, AppConfig(FALSE, FALSE, TRUE)>>}, ParseInputs)

ParseNext == ParseApply

ParseSpec == ParseInit /\ [][ParseNext]_vars

(***************************************************************************)
(* Properties                                                              *)
(***************************************************************************)
\* The step is a tick of reminder r: its sleep is over and it evaluates.
TickOf(r) ==
    /\ reminders[r].pc = "sleep"
    /\ reminders[r].rem = 0
    /\ reminders'[r] # reminders[r]

\* The step starts send_notification (notify-send) for reminder r.
SinkInvoked(r) == reminders[r].pc # "send" /\ reminders'[r].pc = "send"

\* Activity was recorded and no more than 15 minutes (900 s) have passed since.
RecentlyActive == since_record # None /\ Unwrap(since_record) <= 900

\* C1: a tick of a reminder invokes the notification sink for that reminder
\* if and only if activity was recorded within the last 15 minutes at the
\* moment of the tick; a suppressed tick invokes nothing, no other step
\* invokes the sink, and a tick touches no other reminder.
C1_TickFiresIffRecentlyActive ==
    [][\A r \in DOMAIN reminders :
          /\ TickOf(r) => /\ SinkInvoked(r) <=> RecentlyActive
                          /\ \A q \in DOMAIN reminders \ {r} : reminders'[q] = reminders[q]
          /\ SinkInvoked(r) => TickOf(r)]_vars

\* A reminder is inside notify-send at the last second of the window while
\* the other one sleeps.
C1_Witness ==
    /\ Len(notifications) = 2
    /\ reminders[1].pc = "send"
    /\ reminders[2].pc = "sleep"
    /\ since_record = Some(900)

\* C2: as long as update_motion has never been called, last_motion is None,
\* should_notify is false and no step invokes the notification sink,
\* whatever the idle thread has polled and set in the meantime.
C2_DefaultBlocked ==
    [][since_record' = None =>
          /\ last_motion' = None
          /\ ~should_notify(last_motion')
          /\ \A r \in DOMAIN reminders : ~SinkInvoked(r) /\ reminders'[r].pc # "send"]_vars

\* Two seconds in, nothing recorded, the latest poll failed, and the
\* one-second reminder has been through a suppressed tick in this second.
C2_Witness ==
    /\ since_record = None
    /\ poll_failed
    /\ idle_pc = "sleep"
    /\ idle_rem = PollPeriod - 2
    /\ Len(notifications) = 1
    /\ reminders[1].pc = "sleep"
    /\ reminders[1].rem = 1

\* C3: should_notify is true exactly when activity has been recorded and at
\* most 900 seconds have passed since the latest recording (true at 899 and
\* 900, false at 901), whatever was recorded earlier.
C3_WindowInclusive ==
    should_notify(last_motion) <=> (since_record # None /\ Unwrap(since_record) <= 900)

\* A reminder has just been suppressed one second past the window.
C3_Witness ==
    /\ since_record = Some(901)
    /\ \E r \in DOMAIN reminders :
          reminders[r].pc = "sleep" /\ reminders[r].interval = 2 /\ reminders[r].rem = 2

\* The step is update_status(new) called by the idle thread.
SetPresence(new) ==
    \/ new = Active /\ idle_pc = "set_active" /\ idle_pc' # idle_pc
    \/ new = Inactive /\ idle_pc = "matched" /\ idle_result.ok /\ idle_pc' = "sleep"

\* The pushes the step has spawned.
Dispatched ==
    IF Len(pending') >= Len(pending) /\ pending' # pending
    THEN <<pending'[Len(pending')]>> ELSE <<>>

\* C4 as stated: every update_status(new) with new different from
\* current_status dispatches exactly one push, whatever the configuration.
C4_PublishOnEveryTransition ==
    [][\A new \in MotionStatus :
          SetPresence(new) =>
              /\ current_status' = new
              /\ Dispatched = IF current_status # new THEN <<new>> ELSE <<>>]_vars

\* C4 (amended): with homeassistant_url and homeassistant_api_key both set,
\* update_status(new) dispatches exactly one push of new when new differs
\* from current_status and none when it is equal; with either unset it
\* dispatches none; current_status becomes new; no other step dispatches.
C4_PublishOnTransitionWhenConfigured ==
    [][/\ \A new \in MotionStatus :
             SetPresence(new) =>
                 /\ current_status' = new
                 /\ Dispatched = IF current_status # new /\ app_config.homeassistant
                                 THEN <<new>> ELSE <<>>
       /\ Dispatched # <<>> => \E new \in MotionStatus : SetPresence(new)]_vars

\* update_status(Active) is being called a second time in a row: the status
\* is Active from the first call, whose push has finished.
C4_Witness ==
    /\ app_config.homeassistant
    /\ current_status = Active
    /\ pending = <<>>
    /\ idle_pc = "set_active"

\* An interval of notifications.json was rejected and main has returned the error.
ConfigAbort ==
    /\ main_pc = "exit_err"
    /\ next_notif <= Len(notifications)
    /\ \A overflow_checks \in BOOLEAN :
          ~parse_interval(notifications[next_notif], overflow_checks).ok

\* C5: when parse_interval rejects an interval the process aborts with no
\* background unit started: no idle thread, no reminder thread (also none
\* for the records before the bad one), no push dispatched, nothing polled.
C5_AbortBeforeAnyUnitStarts ==
    ConfigAbort =>
        /\ idle_pc = "none"
        /\ \A r \in DOMAIN reminders : reminders[r].pc = "none"
        /\ pending = <<>>
        /\ current_status = Inactive
        /\ last_motion = None

\* Every interval parsed, every thread spawned, and main has not failed.
StartupSucceeded ==
    /\ next_notif > Len(notifications)
    /\ main_pc \notin {"notif_loop", "exit_err"}

\* C6: once startup has succeeded the idle thread and every reminder thread
\* keep running (they have no exit), with the ad-hoc endpoint enabled or
\* not: the process, and with it its threads, has not ended.
C6_UnitsKeepRunning == StartupSucceeded => Running

\* C7: current_status = Active implies last_motion is set.
C7_ActiveImpliesMotionSet == current_status = Active => last_motion # None

\* Active, a reminder inside notify-send, and the idle thread in the middle
\* of its next iteration.
C7_Witness ==
    /\ current_status = Active
    /\ idle_pc = "matched"
    /\ \E r \in DOMAIN reminders : reminders[r].pc = "send"

\* last_motion is set and at most one poll period old: the 10 seconds of the
\* sleep, plus what the iteration that recorded it and the one that follows
\* may take.
MotionRecent ==
    last_motion # None /\ Unwrap(last_motion) <= 10 + 2 * PollSlack

C9_PollBranches ==
    [][/\ (idle_pc = "matched" /\ idle_pc' # idle_pc /\ idle_result.ok) =>
             IF idle_result.secs < 10
             THEN /\ last_motion' = Some(0)
                  /\ current_status' = current_status
                  /\ idle_pc' = "set_active"
             ELSE /\ last_motion' = last_motion
                  /\ current_status' = Inactive
                  /\ idle_pc' = "sleep"
       /\ (idle_pc = "set_active" /\ idle_pc' # idle_pc) =>
             /\ last_motion' = last_motion
             /\ current_status' = Active
             /\ idle_pc' = "sleep"
       /\ (idle_pc' # idle_pc /\ last_motion # None) =>
             /\ last_motion' # None
             /\ Unwrap(last_motion') <= Unwrap(last_motion)]_vars

\* Ten seconds after activity was recorded a poll has set Inactive and has
\* left last_motion where it was.
C9_Witness ==
    /\ current_status = Inactive
    /\ last_motion = Some(10)
    /\ since_record = Some(10)
    /\ ~poll_failed
    /\ idle_pc = "sleep"
    /\ idle_rem = PollPeriod

\* C10: the iteration whose query returns Err changes neither last_motion
\* nor current_status, dispatches no push, does not end the process, and
\* goes to the same sleep of 10 seconds; when that sleep is over the thread
\* can query again, however many queries have failed before.
C10_FailedQueryNoEffect ==
    [][/\ (idle_pc = "matched" /\ idle_pc' # idle_pc /\ ~idle_result.ok) =>
             /\ last_motion' = last_motion
             /\ current_status' = current_status
             /\ pending' = pending
             /\ main_pc' = main_pc
             /\ idle_pc' = "sleep"
             /\ idle_rem' = 10
       /\ (Running /\ poll_failed /\ idle_pc = "sleep" /\ idle_rem = 0) =>
             ENABLED IdleQuery]_vars

\* Two queries in a row have failed since activity was recorded.
C10_Witness ==
    /\ poll_failed
    /\ current_status = Active
    /\ last_motion = Some(20)
    /\ idle_pc = "sleep"
    /\ idle_rem = PollPeriod

\* C11: while the route is served, a request whose body deserializes can be
\* handled whatever last_motion and current_status are (never set, stale or
\* recent), its handler calls send_notification exactly once, and handling
\* it, from the call to the reply, changes neither last_motion nor
\* current_status, spawns no push and touches no reminder thread.
C11_AdhocBypass ==
    /\ []((main_pc = "serving" /\ adhoc_sending < MaxRequests) => ENABLED AdhocNotify)
    /\ [][adhoc_sending' # adhoc_sending =>
             /\ adhoc_sending' > adhoc_sending => adhoc_sending' = adhoc_sending + 1
             /\ last_motion' = last_motion
             /\ since_record' = since_record
             /\ current_status' = current_status
             /\ pending' = pending
             /\ last_pushed' = last_pushed
             /\ reminders' = reminders]_vars

\* A handler is inside send_notification although no activity was ever
\* recorded: the idle thread's latest query failed and the tracker is as built.
C11_Witness ==
    /\ adhoc_sending = 1
    /\ last_motion = None
    /\ current_status = Inactive
    /\ poll_failed

\* C12: a reminder thread neither evaluates should_notify nor invokes the
\* sink before a full interval has passed since it was spawned, also when
\* activity was recorded right at startup; until then it is in its first
\* sleep, with as much left as has not passed yet.
C12_NoFireBeforeFirstInterval ==
    /\ [](\A r \in DOMAIN reminders :
             (reminders[r].pc # "none" /\ reminders[r].up < reminders[r].interval) =>
                 /\ reminders[r].pc = "sleep"
                 /\ reminders[r].rem = reminders[r].interval - reminders[r].up)
    /\ [][\A r \in DOMAIN reminders :
             (TickOf(r) \/ SinkInvoked(r)) => reminders[r].up >= reminders[r].interval]_vars

\* One second after startup: activity was recorded at startup and
\* should_notify holds, the 1 s reminder has fired, the 2 s reminder is
\* still in its first sleep.
C12_Witness ==
    /\ Len(notifications) = 2
    /\ since_record = Some(1)
    /\ should_notify(last_motion)
    /\ reminders[1].pc = "send"
    /\ reminders[2].pc = "sleep"
    /\ reminders[2].up = 1
    /\ reminders[2].rem = 1

\* A step of the idle thread, of reminder thread r, with the guards shown.
IdleStep ==
    \/ IdleQuery
    \/ IdleQueryFailed
    \/ UpdateMotionLock
    \/ UpdateMotionUnlock
    \/ UpdateStatusLock
    \/ UpdateStatusUnlock
    \/ IdleSleepOver

ReminderStep(r) ==
    \/ ShouldNotifyLock(r)
    \/ ShouldNotifyUnlock(r)
    \/ ReminderSent(r)
    \/ ReminderSleepOver(r)

\* C13: update_status does not wait for the push it spawns: the step that
\* ends the call drops the current_status guard and takes the idle thread
\* to its sleep with the push it spawned still in flight; and while the
\* process runs, with any number of pushes in flight, the idle thread and
\* every reminder thread have a step to take unless they wait for the
\* last_motion guard, which only these threads hold.
C13_SetPresenceDoesNotWait ==
    /\ [][(idle_pc = "update_status" /\ idle_pc' # idle_pc) =>
             /\ idle_pc' = "sleep"
             /\ guards'["current_status"] = None
             /\ (current_status' # current_status /\ app_config.homeassistant) =>
                    /\ pending' # <<>>
                    /\ pending'[Len(pending')] = current_status']_vars
    /\ [](Running =>
             /\ idle_pc = "update_status" => ENABLED UpdateStatusUnlock
             /\ (idle_pc # "none" /\ guards["last_motion"] \in {None, Some(IdleThread)}) =>
                    ENABLED IdleStep
             /\ \A r \in DOMAIN reminders :
                    (reminders[r].pc # "none" /\ guards["last_motion"] \in {None, Some(r)}) =>
                        ENABLED ReminderStep(r))

\* The idle thread is inside update_status while two pushes are in flight,
\* none of them delivered, and a reminder is inside notify-send.
C13_Witness ==
    /\ Len(pending) = 2
    /\ ha_state = None
    /\ idle_pc = "update_status"
    /\ \E r \in DOMAIN reminders : reminders[r].pc = "send"

\* The step is the end of push task i and of nothing else among the pushes.
PushEnds(i) ==
    /\ i \in 1..Len(pending)
    /\ pending' = SubSeq(pending, 1, i - 1) \o SubSeq(pending, i + 1, Len(pending))

\* C14: a push is attempted once.  Only a call of update_status that changes
\* current_status adds a push, and it adds one; a step that ends a push,
\* delivered or failed, takes that one task away, adds none, and leaves
\* current_status as it is; a later update_status with the status
\* current_status already has adds nothing and tells Home Assistant
\* nothing, whatever Home Assistant got before.
C14_NoRetryOfFailedPush ==
    [][/\ Len(pending') <= Len(pending) + 1
       /\ Dispatched # <<>> =>
             \E new \in MotionStatus : SetPresence(new) /\ current_status # new
       /\ (pending' # pending /\ \A new \in MotionStatus : ~SetPresence(new)) =>
             /\ \E i \in 1..Len(pending) :
                    PushEnds(i) /\ ha_state' \in {ha_state, Some(pending[i])}
             /\ current_status' = current_status
             /\ last_pushed' = last_pushed
       /\ \A new \in MotionStatus :
             (SetPresence(new) /\ current_status = new) =>
                 /\ pending' = pending
                 /\ ha_state' = ha_state
                 /\ current_status' = current_status]_vars

\* The push of Active has failed: Active was pushed, nothing is in flight
\* and Home Assistant has no state; the idle thread has found the user
\* active again and is about to call update_status(Active).
C14_Witness ==
    /\ app_config.homeassistant
    /\ current_status = Active
    /\ last_pushed = Some(Active)
    /\ pending = <<>>
    /\ ha_state = None
    /\ idle_pc = "set_active"

\* C15: whatever notify-send comes to, the step in which send_notification
\* returns takes the reminder thread to the sleep of its interval and
\* changes nothing else: not last_motion, not current_status, no other
\* reminder thread, and the process goes on; when a sleep is over the
\* thread can evaluate again.
C15_SinkFailureKeepsLoop ==
    /\ [][\A r \in DOMAIN reminders :
             (reminders[r].pc = "send" /\ reminders'[r] # reminders[r]) =>
                 /\ reminders'[r].pc = "sleep"
                 /\ reminders'[r].rem = reminders[r].interval
                 /\ \A q \in DOMAIN reminders \ {r} : reminders'[q] = reminders[q]
                 /\ last_motion' = last_motion
                 /\ current_status' = current_status
                 /\ main_pc' = main_pc
                 /\ idle_pc' = idle_pc]_vars
    /\ [](\A r \in DOMAIN reminders :
             /\ reminders[r].pc \in {"none", "sleep", "send"}
             /\ (Running /\ reminders[r].pc = "sleep" /\ reminders[r].rem = 0) =>
                    ENABLED ReminderTick(r))

\* Activity was recorded a second ago and the 1 s reminder, spawned longer
\* ago, is at the start of a sleep: its tick of this second has sent and
\* send_notification has returned.
C15_Witness ==
    /\ main_pc = "serving"
    /\ since_record = Some(1)
    /\ reminders[1].pc = "sleep"
    /\ reminders[1].interval = 1
    /\ reminders[1].rem = 1
    /\ reminders[1].up = 1

\* The input is the decimal digits of a number that fits in a u64 and then
\* one of the unit letters.
DigitsAndUnit ==
    /\ Len(parse_input) >= 2
    /\ \A i \in 1..Len(parse_input) - 1 : IsDigit(parse_input[i])
    /\ DigitsValue(SubSeq(parse_input, 1, Len(parse_input) - 1)).ok
    /\ parse_input[Len(parse_input)] \in {"s", "m", "h"}

\* Seconds per unit.
Factor(unit) == IF unit = "s" THEN 1 ELSE IF unit = "m" THEN 60 ELSE 3600

\* C16: for an input made of the digits of n, n a u64, and one unit letter
\* parse_interval returns Ok with exactly n, n * 60 or n * 3600 seconds:
\* the product as a number, nothing of it cut off or wrapped around.
C16_ExactProduct ==
    (parse_output # None /\ DigitsAndUnit) =>
        LET n == DigitsValue(SubSeq(parse_input, 1, Len(parse_input) - 1)).value
            exact == MulAdd(n, Factor(parse_input[Len(parse_input)]), 0)
        IN  /\ Unwrap(parse_output).ok
            /\ Unwrap(parse_output).secs = exact.limbs
            /\ exact.carry = 0

\* C17: for every string parse_interval returns, without a panic, the one
\* outcome its input calls for: InvalidFormat for fewer than 2 characters;
\* otherwise InvalidNumber only when the prefix is no u64 and InvalidUnit
\* only when the last character is none of s, m, h; and Ok when, and only
\* when, none of the three applies.
C17_OneOutcomeNoCrash ==
    parse_output # None =>
        LET out == Unwrap(parse_output)
            len == Len(parse_input)
            short == len < 2
            bad_number == ~short /\ ~ParseU64(SubSeq(parse_input, 1, len - 1)).ok
            bad_unit == ~short /\ parse_input[len] \notin {"s", "m", "h"}
        IN  /\ ~out.panicked
            /\ out.ok <=> (~short /\ ~bad_number /\ ~bad_unit)
            /\ out.err = "InvalidFormat" <=> short
            /\ out.err = "InvalidNumber" => bad_number
            /\ out.err = "InvalidUnit" => bad_unit

\* C18: what a tick decides does not depend on current_status.  In every
\* state the decision is the one it would be with the other status and the
\* same last_motion; a tick sends exactly when activity was recorded within
\* the last 900 seconds, be the status Active or Inactive; so a tick sends
\* while the status is Inactive and the recording is recent.
C18_DecisionIgnoresStatus ==
    /\ [](\A status \in MotionStatus :
             fires([last_motion |-> last_motion, current_status |-> status])
                 <=> fires(Tracker))
    /\ [][\A r \in DOMAIN reminders : \A status \in MotionStatus :
             (TickOf(r) /\ current_status = status) =>
                 /\ SinkInvoked(r) <=> RecentlyActive
                 /\ SinkInvoked(r) => reminders'[r].seen = Some(status)]_vars

\* A reminder is inside notify-send for a tick it took while the status was
\* Inactive, at the last second of the window.
C18_Witness ==
    /\ current_status = Inactive
    /\ since_record = Some(900)
    /\ \E r \in DOMAIN reminders :
          reminders[r].pc = "send" /\ reminders[r].seen = Some(Inactive)

\* The threads that take the guards.
ThreadIds == {IdleThread} \cup DOMAIN reminders

\* C19: no thread holds the guard of last_motion and the guard of
\* current_status at once.  A guard is held only inside the method that
\* reads or writes its field: last_motion by the idle thread inside
\* update_motion or by a reminder thread inside should_notify,
\* current_status by the idle thread inside update_status; so none is held
\* during the idle query, notify-send, a sleep, or by a push task.  The
\* thread that holds a guard can always drop it: no thread waits forever.
C19_LockDiscipline ==
    /\ \A m \in Mutexes : guards[m] = None \/ Unwrap(guards[m]) \in ThreadIds
    /\ \A t \in ThreadIds :
          ~(guards["last_motion"] = Some(t) /\ guards["current_status"] = Some(t))
    /\ guards["last_motion"] = Some(IdleThread) <=> idle_pc = "update_motion"
    /\ guards["current_status"] = Some(IdleThread) <=> idle_pc = "update_status"
    /\ \A r \in DOMAIN reminders :
          /\ guards["last_motion"] = Some(r) <=> reminders[r].pc = "should_notify"
          /\ guards["current_status"] # Some(r)
    /\ Running =>
          /\ guards["last_motion"] = Some(IdleThread) => ENABLED UpdateMotionUnlock
          /\ guards["current_status"] = Some(IdleThread) => ENABLED UpdateStatusUnlock
          /\ \A r \in DOMAIN reminders :
                guards["last_motion"] = Some(r) => ENABLED ShouldNotifyUnlock(r)

\* Both guards are held, by different threads: reminder 1 is inside
\* should_notify and the idle thread inside update_status, while reminder 2
\* is inside notify-send and a push is in flight.
C19_Witness ==
    /\ guards["last_motion"] = Some(1)
    /\ guards["current_status"] = Some(IdleThread)
    /\ Len(notifications) = 2
    /\ reminders[2].pc = "send"
    /\ pending # <<>>

\* Push task i reaches Home Assistant now.
Delivered(i) == PushDone(i) /\ ha_state' = Some(pending[i])

\* C20: with Home Assistant set, the pushes update_status spawns alternate
\* and begin with Active: the first carries Active (the Inactive the
\* tracker starts with is never pushed), each later one the status the one
\* before it did not carry, which is the new current_status.  Their end
\* is not ordered: any push in flight can be the next one delivered,
\* also one spawned before a push that was delivered already, and then
\* Home Assistant is left with a state that is not current_status.
C20_PushesAlternate ==
    /\ [][Dispatched # <<>> =>
             /\ last_pushed = None => Dispatched[1] = Active
             /\ last_pushed # None => Dispatched[1] # Unwrap(last_pushed)
             /\ last_pushed' = Some(Dispatched[1])
             /\ current_status' = Dispatched[1]]_vars
    /\ [](/\ last_pushed = None => (pending = <<>> /\ ha_state = None)
          /\ Running => \A i \in 1..Len(pending) : ENABLED Delivered(i))

\* Active was pushed, then Inactive: the push of Inactive has reached Home
\* Assistant and the push of Active is still in flight.
C20_Witness ==
    /\ pending = <<Active>>
    /\ last_pushed = Some(Inactive)
    /\ current_status = Inactive
    /\ ha_state = Some(Inactive)

====
